---------------------------- MODULE Spec2Model ----------------------------
(***************************************************************************)
(* A model of the FCM client of src/fcm.go: Client.Send with its retry     *)
(* loop, Client.processResp, Client.calcBackoff and parseRetryAfter.       *)
(*                                                                         *)
(* Durations are whole numbers of units of 10 microseconds (Go counts      *)
(* nanoseconds; see Millisecond below).  Instants are durations since      *)
(* 1999-12-31 23:59:00 UTC.  A Go pointer or slice that may be nil is a    *)
(* sequence: <<>> is nil, <<v>> points to v.  A Go string read character   *)
(* by character (the Retry-After header) is a sequence of one-character    *)
(* strings.                                                                *)
(***************************************************************************)
EXTENDS Integers, Sequences, FiniteSets, TLC

VARIABLES
    \* ---- one call of Client.Send (specification Spec) ----
    pc,             \* "send": about to call c.send; "sleep": inside sleepHook;
                    \* "store": inside a Store call (SpecPair only);
                    \* "done": Send returned; "panic": Send panicked
    options,        \* c.options
    registrationIds,\* Send's local registrationIds (the caller's batch)
    msgIds,         \* m.RegistrationIds, the batch the next c.send sends
    attempts,       \* the loop variable attempts
    currentBackoff, \* Send's local currentBackoff
    resp,           \* Send's local resp: <<>> or <<response>>
    backoff,        \* the duration handed to sleepHook while pc = "sleep"
    store,          \* the Store: the set of registered tokens
    calls,          \* the Store calls made by the latest attempt, in order
    storeFailed,    \* which of those calls returned an error (0: none)
    transportErr,   \* the error of the latest exchange (NoError: none)
    ret,            \* what Send returned: [hr, err]
    exchanges,      \* number of c.client.Do exchanges made so far
    hints,          \* resp.retryAfter of every attempt that decided a retry
    sleeps,         \* every duration handed to sleepHook, in order
    sent,           \* the batch sent by the latest c.send
    peer,           \* the locals of a second call of Send on the same client,
                    \* which is not running now (specification SpecPair)
    ctx,            \* Send's ctx: [done, at, after]; done: ctx.Done() has
                    \* fired; at: where Send was then, "send" (in c.send) or
                    \* "sleep" (in sleepHook); after: exchanges completed then
    loop,           \* processResp's locals while pc = "store", inside a Store
                    \* call: [i, toRetry, call, w], w the writes to the
                    \* Store's map the call has made (specification SpecPair)
    fatal,          \* the Go runtime has stopped the process with "fatal
                    \* error: concurrent map writes" (specification SpecPair)
    \* ---- one call of processResp (specification SpecProc) ----
    proc,
    \* ---- one call of parseRetryAfter (specification SpecParse) ----
    parse,
    \* ---- one call on the example's MemStore (specification SpecMem) ----
    mem

sendVars == <<pc, options, registrationIds, msgIds, attempts, currentBackoff,
              resp, backoff, store, calls, storeFailed, transportErr, ret,
              exchanges, hints, sleeps, sent, ctx, peer, loop, fatal>>
vars == <<sendVars, proc, parse, mem>>

(***************************************************************************)
(* Bounds of the model.                                                    *)
(***************************************************************************)
MaxHeaderLen == 3     \* longest Retry-After value built from HeaderChars
MaxProcLen == 4       \* longest token / result sequence given to processResp
MaxBatch == 2         \* longest batch given to Send
MaxExchanges == 4     \* exchanges after which Spec stops following Send
MaxTestExchanges == 6 \* exchanges after which SpecRetry stops following Send

(***************************************************************************)
(* Program constants.                                                      *)
(***************************************************************************)
\* A time.Duration is a whole number of units of 10 microseconds: every
\* duration that a Retry-After value of MaxHeaderLen + 1 characters or fewer
\* over HeaderChars denotes is a whole number of them (the finest is ".01m",
\* read as ".01ms"), and the longest ("5555", read as "5555s") stays an
\* integer TLC can hold.
Millisecond == 100
Second == 1000 * Millisecond
defaultMinBackoff == 1 * Second
defaultMaxBackoff == 10 * Second
defaultMaxRetryAttempts == 5
StatusOK == 200
StatusBadRequest == 400
StatusUnauthorized == 401
StatusInternalServerError == 500

NoError == "nil"

----------------------------------------------------------------------------
(***************************************************************************)
(* time.ParseDuration, as parseRetryAfter uses it.                         *)
(***************************************************************************)
Digits == {"0", "1", "2", "3", "4", "5", "6", "7", "8", "9"}

DigitVal(c) ==
    CASE c = "0" -> 0 [] c = "1" -> 1 [] c = "2" -> 2 [] c = "3" -> 3
      [] c = "4" -> 4 [] c = "5" -> 5 [] c = "6" -> 6 [] c = "7" -> 7
      [] c = "8" -> 8 [] c = "9" -> 9

\* Length of the longest prefix of s made of characters of the set isIn.
RECURSIVE SpanLen(_, _)
SpanLen(s, isIn) ==
    IF s = <<>> \/ ~(Head(s) \in isIn) THEN 0 ELSE 1 + SpanLen(Tail(s), isIn)

RECURSIVE UnitLen(_)
UnitLen(s) ==
    IF s = <<>> \/ Head(s) = "." \/ Head(s) \in Digits THEN 0
    ELSE 1 + UnitLen(Tail(s))

RECURSIVE DecimalValue(_)
DecimalValue(s) ==
    IF s = <<>> THEN 0
    ELSE 10 * DecimalValue(SubSeq(s, 1, Len(s) - 1)) + DigitVal(s[Len(s)])

RECURSIVE Pow10(_)
Pow10(n) == IF n = 0 THEN 1 ELSE 10 * Pow10(n - 1)

Drop(s, n) == SubSeq(s, n + 1, Len(s))

\* time's unitMap ("ns" and "us" are outside the alphabet).
unitMap ==
    [u \in {<<"m", "s">>, <<"s">>, <<"m">>, <<"h">>} |->
        CASE u = <<"m", "s">> -> Millisecond
          [] u = <<"s">> -> Second
          [] u = <<"m">> -> 60 * Second
          [] u = <<"h">> -> 3600 * Second]

\* The loop of time.ParseDuration over the text that follows the sign:
\* ([0-9]*(\.[0-9]*)?[a-z]+)+ , summing the groups.
RECURSIVE ParseGroups(_, _)
ParseGroups(s, d) ==
    IF s = <<>> THEN [d |-> d, err |-> NoError]
    ELSE IF ~(Head(s) = "." \/ Head(s) \in Digits)
    THEN [d |-> 0, err |-> "time: invalid duration"]
    ELSE
      LET nInt == SpanLen(s, Digits)
          v == DecimalValue(SubSeq(s, 1, nInt))
          s1 == Drop(s, nInt)
          hasDot == s1 # <<>> /\ Head(s1) = "."
          s2 == IF hasDot THEN Tail(s1) ELSE s1
          nFrac == IF hasDot THEN SpanLen(s2, Digits) ELSE 0
          f == DecimalValue(SubSeq(s2, 1, nFrac))
          scale == Pow10(nFrac)
          s3 == Drop(s2, nFrac)
          nUnit == UnitLen(s3)
          u == SubSeq(s3, 1, nUnit)
          s4 == Drop(s3, nUnit)
      IN  IF nInt = 0 /\ nFrac = 0
          THEN [d |-> 0, err |-> "time: invalid duration"]
          ELSE IF nUnit = 0
          THEN [d |-> 0, err |-> "time: missing unit in duration"]
          ELSE IF u \notin DOMAIN unitMap
          THEN [d |-> 0, err |-> "time: unknown unit in duration"]
          ELSE ParseGroups(s4, d + v * unitMap[u] + (f * unitMap[u]) \div scale)

ParseDuration(s) ==
    LET signed == s # <<>> /\ Head(s) \in {"-", "+"}
        neg == s # <<>> /\ Head(s) = "-"
        body == IF signed THEN Tail(s) ELSE s
    IN  IF body = <<"0">> THEN [d |-> 0, err |-> NoError]
        ELSE IF body = <<>> THEN [d |-> 0, err |-> "time: invalid duration"]
        ELSE LET r == ParseGroups(body, 0)
             IN  IF r.err # NoError THEN r
                 ELSE [d |-> IF neg THEN -r.d ELSE r.d, err |-> NoError]

(***************************************************************************)
(* net/http's ParseTime: a date text it accepts gives its instant, every   *)
(* other text gives the zero time.Time and an error.                       *)
(***************************************************************************)
\* A time.Time is [zero, d]: the zero time.Time (year 1), or the instant d
\* after 1999-12-31 23:59:00 UTC.
ZeroTime == [zero |-> TRUE, d |-> 0]
TimeAt(d) == [zero |-> FALSE, d |-> d]

\* "Fri, 31 Dec 1999 23:59:59 GMT"
Date1999 ==
    <<"F", "r", "i", ",", " ", "3", "1", " ", "D", "e", "c", " ",
      "1", "9", "9", "9", " ", "2", "3", ":", "5", "9", ":", "5", "9",
      " ", "G", "M", "T">>

\* "Sat, 01 Jan 2000 00:00:01 GMT"
Date2000 ==
    <<"S", "a", "t", ",", " ", "0", "1", " ", "J", "a", "n", " ",
      "2", "0", "0", "0", " ", "0", "0", ":", "0", "0", ":", "0", "1",
      " ", "G", "M", "T">>

HttpDates == {[text |-> Date1999, t |-> TimeAt(59 * Second)],
              [text |-> Date2000, t |-> TimeAt(61 * Second)]}

ParseTime(text) ==
    IF \E e \in HttpDates : e.text = text
    THEN [t |-> (CHOOSE e \in HttpDates : e.text = text).t, err |-> NoError]
    ELSE [t |-> ZeroTime, err |-> "parsing time: cannot parse"]

\* t.Before(u) and t.Sub(u), for u a reading of the clock (never the zero time).
TimeBefore(t, u) == t.zero \/ t.d < u.d
TimeSub(t, u) == t.d - u.d

(***************************************************************************)
(* parseRetryAfter(date).  It calls nowHook() twice, for t.Before and for  *)
(* t.Sub: now is <<first reading, second reading>>.                        *)
(* The result is [retryAfter, err]: retryAfter is <<>> (nil) or <<d>>.     *)
(***************************************************************************)
parseRetryAfter(date, now) ==
    IF date = <<>> THEN [retryAfter |-> <<>>, err |-> NoError]
    ELSE
      LET pd == ParseDuration(date \o <<"s">>)
      IN  IF pd.err = NoError THEN [retryAfter |-> <<pd.d>>, err |-> NoError]
          ELSE
            LET pt == ParseTime(date)
            IN  IF TimeBefore(pt.t, now[1])
                THEN [retryAfter |-> <<>>, err |-> NoError]
                ELSE IF pt.err # NoError
                THEN [retryAfter |-> <<>>, err |-> pt.err]
                ELSE [retryAfter |-> <<TimeSub(pt.t, now[2])>>,
                      err |-> NoError]

----------------------------------------------------------------------------
(***************************************************************************)
(* The Store, as the mock of the tests keeps it: a set of tokens.  Whether *)
(* a call fails, and how many of its writes it has made when it returns    *)
(* its error, is the Store's own business: both are inputs of the model.   *)
(* (The mock's calls never fail; MemStore.Update fails before it writes,   *)
(* MemStore.Delete after it has written.)                                  *)
(***************************************************************************)
Range(q) == {q[i] : i \in DOMAIN q}

StoreUpdate(s, oldRegId, newRegId) == (s \ {oldRegId}) \cup {newRegId}
StoreDelete(s, regId) == s \ {regId}

UpdateCall(regId, newRegId) ==
    [op |-> "Update", regId |-> regId, newRegId |-> newRegId]
DeleteCall(regId) == [op |-> "Delete", regId |-> regId, newRegId |-> ""]

\* The writes a Store call makes to the Store's map, one statement each:
\* Update is delete(t.regIds, oldRegId); t.regIds[newRegId] = true, and
\* Delete is delete(t.regIds, regId).
StoreWrites(c) ==
    IF c.op = "Update"
    THEN <<[stmt |-> "delete", key |-> c.regId],
           [stmt |-> "set", key |-> c.newRegId]>>
    ELSE <<[stmt |-> "delete", key |-> c.regId]>>

MapWrite(st, w) == IF w.stmt = "delete" THEN st \ {w.key} ELSE st \cup {w.key}

\* The Store after a call has made the first n of its writes.
RECURSIVE StoreAfterWrites(_, _, _)
StoreAfterWrites(st, c, n) ==
    IF n = 0 THEN st
    ELSE MapWrite(StoreAfterWrites(st, c, n - 1), StoreWrites(c)[n])

StoreUpdateError == "store: update failed"
StoreDeleteError == "store: delete failed"

\* A variant that forgets "InternalServerError".
isRetryOnlyUnavailable(err) == err = "Unavailable"

\* A variant with a deny-list: every reason but "NotRegistered" is retried.
isRetryUnlessNotRegistered(err) == err # "NotRegistered"

isRetry(err) == err = "Unavailable" \/ err = "InternalServerError"

(***************************************************************************)
(* processResp(ctx, registrationIds, resp) on the Store st.  failAt = k    *)
(* makes the k-th Store call of this invocation return an error (0: none), *)
(* after the call has made the first `wrote` of its writes.                *)
(* The result is [toRetry, err, calls, store, panic]: toRetry is the       *)
(* returned slice (<<>> is nil), calls the Store calls made, in order,     *)
(* store the Store afterwards, panic whether registrationIds[i] was read   *)
(* out of range.                                                           *)
(***************************************************************************)
RECURSIVE processLoop(_, _, _, _, _, _)
processLoop(regIds, results, i, acc, failAt, wrote) ==
    IF i > Len(results) THEN acc
    ELSE IF i > Len(regIds) THEN [acc EXCEPT !.panic = TRUE]
    ELSE
      LET regId == regIds[i]
          result == results[i]
          fails == Len(acc.calls) + 1 = failAt
      IN  IF result.MessageId # ""
          THEN IF result.RegistrationId # ""
               THEN LET c == UpdateCall(regId, result.RegistrationId)
                    IN  IF fails
                        THEN [acc EXCEPT !.calls = Append(@, c),
                                         !.toRetry = <<>>,
                                         !.err = StoreUpdateError,
                                         !.store = StoreAfterWrites(@, c,
                                                                    wrote)]
                        ELSE processLoop(regIds, results, i + 1,
                               [acc EXCEPT !.calls = Append(@, c),
                                           !.store = StoreUpdate(@, regId,
                                                       result.RegistrationId)],
                               failAt, wrote)
               ELSE processLoop(regIds, results, i + 1, acc, failAt, wrote)
          ELSE IF isRetry(result.Error)
          THEN processLoop(regIds, results, i + 1,
                 [acc EXCEPT !.toRetry = Append(@, regId)], failAt, wrote)
          ELSE LET c == DeleteCall(regId)
               IN  IF fails
                   THEN [acc EXCEPT !.calls = Append(@, c),
                                    !.toRetry = <<>>,
                                    !.err = StoreDeleteError,
                                    !.store = StoreAfterWrites(@, c, wrote)]
                   ELSE processLoop(regIds, results, i + 1,
                          [acc EXCEPT !.calls = Append(@, c),
                                      !.store = StoreDelete(@, regId)],
                          failAt, wrote)

\* A variant without the fast path.
processRespNoFastPath(regIds, httpResp, st, failAt, wrote) ==
    processLoop(regIds, httpResp.Results, 1,
                [toRetry |-> <<>>, err |-> NoError, calls |-> <<>>,
                 store |-> st, panic |-> FALSE], failAt, wrote)

\* A variant that undoes the Store calls of the attempt when one fails.
processRespRollsBack(regIds, httpResp, st, failAt, wrote) ==
    LET acc0 == [toRetry |-> <<>>, err |-> NoError, calls |-> <<>>,
                 store |-> st, panic |-> FALSE]
        out == IF httpResp.Failure = 0 /\ httpResp.CanonicalIds = 0
               THEN acc0
               ELSE processLoop(regIds, httpResp.Results, 1, acc0, failAt,
                                wrote)
    IN  IF out.err # NoError THEN [out EXCEPT !.store = st] ELSE out

\* What no earlier call of processResp has left behind.
NoCallBefore == [toRetry |-> <<>>, err |-> NoError, calls |-> <<>>,
                 store |-> {}, panic |-> FALSE]

\* A variant that keeps the retry set in the Client, from call to call.
toRetryKeptInClient(left) == left.toRetry

\* processResp's named result toRetry at entry: a variable of the call, nil
\* whatever the call before (left: what that call ended with) returned.
toRetryAtEntry(left) == <<>>

\* processResp called on a Client whose latest call of processResp ended
\* with left.  The fast path returns the literal nil, nil.
processRespAfter(left, regIds, httpResp, st, failAt, wrote) ==
    LET acc0 == [toRetry |-> toRetryAtEntry(left), err |-> NoError,
                 calls |-> <<>>, store |-> st, panic |-> FALSE]
    IN  IF httpResp.Failure = 0 /\ httpResp.CanonicalIds = 0
        THEN [acc0 EXCEPT !.toRetry = <<>>]
        ELSE processLoop(regIds, httpResp.Results, 1, acc0, failAt, wrote)

processResp(regIds, httpResp, st, failAt, wrote) ==
    processRespAfter(NoCallBefore, regIds, httpResp, st, failAt, wrote)

(***************************************************************************)
(* calcBackoff(retryAfter, currentBackoff) under the options opts.         *)
(***************************************************************************)
\* A variant that caps a server-supplied wait by MaxBackoff.
calcBackoffCapped(retryAfter, cur, opts) ==
    LET b == IF retryAfter # <<>> THEN retryAfter[1] ELSE cur * 2
    IN  IF b > opts.MaxBackoff THEN opts.MaxBackoff
        ELSE IF b < opts.MinBackoff THEN opts.MinBackoff
        ELSE b

\* A variant that forgets to double the current backoff.
calcBackoffNoDoubling(retryAfter, cur, opts) ==
    IF retryAfter # <<>>
    THEN IF retryAfter[1] < opts.MinBackoff THEN opts.MinBackoff
         ELSE retryAfter[1]
    ELSE IF cur > opts.MaxBackoff THEN opts.MaxBackoff
         ELSE IF cur < opts.MinBackoff THEN opts.MinBackoff
         ELSE cur

\* A variant that doubles without a ceiling.
calcBackoffNoCeiling(retryAfter, cur, opts) ==
    IF retryAfter # <<>>
    THEN IF retryAfter[1] < opts.MinBackoff THEN opts.MinBackoff
         ELSE retryAfter[1]
    ELSE IF cur * 2 < opts.MinBackoff THEN opts.MinBackoff ELSE cur * 2

\* A variant that hands a server-supplied wait on as it is.
calcBackoffNoFloor(retryAfter, cur, opts) ==
    IF retryAfter # <<>>
    THEN retryAfter[1]
    ELSE LET b == cur * 2
         IN  IF b > opts.MaxBackoff THEN opts.MaxBackoff
             ELSE IF b < opts.MinBackoff THEN opts.MinBackoff
             ELSE b

calcBackoff(retryAfter, cur, opts) ==
    IF retryAfter # <<>>
    THEN IF retryAfter[1] < opts.MinBackoff THEN opts.MinBackoff
         ELSE retryAfter[1]
    ELSE LET b == cur * 2
         IN  IF b > opts.MaxBackoff THEN opts.MaxBackoff
             ELSE IF b < opts.MinBackoff THEN opts.MinBackoff
             ELSE b

DefaultClientOptions ==
    [MinBackoff |-> defaultMinBackoff, MaxBackoff |-> defaultMaxBackoff,
     MaxRetryAttempts |-> defaultMaxRetryAttempts]

----------------------------------------------------------------------------
(***************************************************************************)
(* Inputs.                                                                 *)
(***************************************************************************)
RECURSIVE SeqsUpTo(_, _)
SeqsUpTo(S, n) ==
    IF n = 0 THEN {<<>>}
    ELSE LET shorter == SeqsUpTo(S, n - 1)
         IN  shorter \cup {Append(q, x) : q \in shorter, x \in S}

SeqsOfLen(S, n) == {q \in SeqsUpTo(S, n) : Len(q) = n}

Count(P(_), q) == Cardinality({i \in DOMAIN q : P(q[i])})

MakeResult(messageId, registrationId, error) ==
    [MessageId |-> messageId, RegistrationId |-> registrationId,
     Error |-> error]

Delivered == MakeResult("1:0408", "", "")
Renamed == MakeResult("1:2342", "32", "")
Unavailable == MakeResult("", "", "Unavailable")
InternalServerError == MakeResult("", "", "InternalServerError")
NotRegistered == MakeResult("", "", "NotRegistered")
DeliveredWithError == MakeResult("1:1516", "", "Unavailable")
NoReason == MakeResult("", "", "")
InvalidRegistration == MakeResult("", "", "InvalidRegistration")

HasMessageId(r) == r.MessageId # ""
IsRename(r) == r.MessageId # "" /\ r.RegistrationId # ""
IsRetryResult(r) == r.MessageId = "" /\ r.Error \in {"Unavailable", "InternalServerError"}
IsTerminal(r) == r.MessageId = "" /\ r.Error \notin {"Unavailable", "InternalServerError"}

\* The body of a response: the counts a server computes from its results,
\* or the counts given.
MakeHttpResponse(results, failure, canonicalIds) ==
    [Success |-> Count(HasMessageId, results), Failure |-> failure,
     CanonicalIds |-> canonicalIds, Results |-> results]

HonestHttpResponse(results) ==
    MakeHttpResponse(results,
                     Cardinality({i \in DOMAIN results : ~HasMessageId(results[i])}),
                     Count(IsRename, results))

----------------------------------------------------------------------------
(***************************************************************************)
(* Specification SpecParse: parseRetryAfter applied to one header value    *)
(* under one reading of the clock.                                         *)
(***************************************************************************)
HeaderChars == {"0", "1", "5", ".", "-", "+", "m", " ", "b"}

\* "5 blab", the malformed value of TestParseRetryAfter
Blab == <<"5", " ", "b", "l", "a", "b">>

HeaderValues ==
    SeqsUpTo(HeaderChars, MaxHeaderLen) \cup {Date1999, Date2000, Blab}

\* Readings of the clock: before, at, within a second after and well after
\* the instant of Date1999.
ClockInstants == {TimeAt(0), TimeAt(59 * Second), TimeAt(59 * Second + 500 * Millisecond),
                  TimeAt(120 * Second)}

\* The two readings of one call: a clock that stands still between them
\* (the hooks of the tests) or one that moves on.
Nows == {n \in ClockInstants \X ClockInstants : n[1].d <= n[2].d}

ParseIdle == [pc |-> "idle", date |-> <<>>, now |-> <<TimeAt(0), TimeAt(0)>>,
              retryAfter |-> <<>>, err |-> NoError]

ProcIdle == [pc |-> "idle", regIds |-> <<>>,
             httpResp |-> MakeHttpResponse(<<>>, 0, 0), failAt |-> 0,
             wrote |-> 0, store0 |-> {},
             out |-> [toRetry |-> <<>>, err |-> NoError, calls |-> <<>>,
                      store |-> {}, panic |-> FALSE],
             again |-> [toRetry |-> <<>>, err |-> NoError, calls |-> <<>>,
                        store |-> {}, panic |-> FALSE]]

MemIdle == [pc |-> "idle", op |-> "", regIds |-> {}, oldRegId |-> "",
            newRegId |-> "", after |-> {}, list |-> <<>>, err |-> NoError]

\* context.Background(), not cancelled
Background == [done |-> FALSE, at |-> "", after |-> 0]

\* processResp is not inside a Store call.
NoLoop == [i |-> 0, toRetry |-> <<>>, call |-> <<>>, w |-> 0]

\* The locals of a call of Send on the batch regIds that has not made a
\* step yet, under the options opts.
NewCall(id, regIds, opts) ==
    [id |-> id, pc |-> "send", registrationIds |-> regIds, msgIds |-> regIds,
     attempts |-> 1, currentBackoff |-> opts.MinBackoff, resp |-> <<>>,
     backoff |-> 0, calls |-> <<>>, storeFailed |-> 0,
     transportErr |-> NoError, ret |-> [hr |-> <<>>, err |-> NoError],
     exchanges |-> 0, hints |-> <<>>, sleeps |-> <<>>, sent |-> <<>>,
     ctx |-> Background, loop |-> NoLoop]

\* No second call.
NoPeer == [NewCall(0, <<>>, [MinBackoff |-> 0]) EXCEPT !.pc = "idle"]

SendIdle ==
    /\ pc = "idle"
    /\ options = DefaultClientOptions
    /\ registrationIds = <<>>
    /\ msgIds = <<>>
    /\ attempts = 1
    /\ currentBackoff = 0
    /\ resp = <<>>
    /\ backoff = 0
    /\ store = {}
    /\ calls = <<>>
    /\ storeFailed = 0
    /\ transportErr = NoError
    /\ ret = [hr |-> <<>>, err |-> NoError]
    /\ exchanges = 0
    /\ hints = <<>>
    /\ sleeps = <<>>
    /\ sent = <<>>
    /\ ctx = Background
    /\ peer = NoPeer
    /\ loop = NoLoop
    /\ fatal = FALSE

InitParse ==
    /\ SendIdle
    /\ proc = ProcIdle
    /\ mem = MemIdle
    /\ \E date \in HeaderValues, now \in Nows :
         parse = [pc |-> "call", date |-> date, now |-> now,
                  retryAfter |-> <<>>, err |-> NoError]

ParseCall ==
    /\ parse.pc = "call"
    /\ LET r == parseRetryAfter(parse.date, parse.now)
       IN  parse' = [parse EXCEPT !.pc = "returned",
                                  !.retryAfter = r.retryAfter,
                                  !.err = r.err]
    /\ UNCHANGED <<sendVars, proc, mem>>

NextParse == ParseCall

SpecParse == InitParse /\ [][NextParse]_vars

----------------------------------------------------------------------------
(***************************************************************************)
(* Specification SpecProc: processResp applied to one token sequence and   *)
(* one response, on a Store that holds the tokens.  The token sequence is  *)
(* as long as the result list, or one shorter, or one longer.              *)
(***************************************************************************)
ProcTokens == <<"4", "8", "15", "16", "23", "42">>

\* The Store calls processResp makes for this response when none fails.
StoreCallsOf(regIds, httpResp, st) ==
    processResp(regIds, httpResp, st, 0, 0).calls

\* How many of its writes the failAt-th of the Store calls cs may have made
\* when it returns its error: none, some, or all of them.
FailWrites(cs, failAt) ==
    IF failAt \in 1..Len(cs) THEN 0..Len(StoreWrites(cs[failAt])) ELSE {0}

ResultKinds == {Delivered, Renamed, Unavailable, InternalServerError,
                NotRegistered, DeliveredWithError, NoReason,
                InvalidRegistration}

InitProc ==
    /\ SendIdle
    /\ parse = ParseIdle
    /\ mem = MemIdle
    /\ \E n \in 0..MaxProcLen, results \in SeqsUpTo(ResultKinds, MaxProcLen),
          failure \in {0, 1}, canonicalIds \in {0, 1}, failAt \in 0..MaxProcLen :
         LET regIds == SubSeq(ProcTokens, 1, n)
             httpResp == MakeHttpResponse(results, failure, canonicalIds)
             cs == StoreCallsOf(regIds, httpResp, Range(regIds))
         IN  /\ n - Len(results) \in -1..1
             /\ failAt <= Len(cs)
             /\ \E wrote \in FailWrites(cs, failAt) :
                  proc = [pc |-> "call", regIds |-> regIds,
                          httpResp |-> httpResp,
                          failAt |-> failAt, wrote |-> wrote,
                          store0 |-> Range(regIds),
                          out |-> ProcIdle.out, again |-> ProcIdle.out]

ProcCall ==
    /\ proc.pc = "call"
    /\ proc' = [proc EXCEPT
                  !.pc = "returned",
                  !.out = processResp(proc.regIds, proc.httpResp, proc.store0,
                                      proc.failAt, proc.wrote)]
    /\ UNCHANGED <<sendVars, parse, mem>>

NextProc == ProcCall

SpecProc == InitProc /\ [][NextProc]_vars

(***************************************************************************)
(* Specification SpecProcTwice: processResp called a second time on the    *)
(* same Client with the same token sequence and response, on the Store as  *)
(* the first call left it and after what the first call ended with; no     *)
(* Store call fails.                                                       *)
(***************************************************************************)
InitProcTwice == InitProc /\ proc.failAt = 0

ProcAgain ==
    /\ proc.pc = "returned"
    /\ proc' = [proc EXCEPT
                  !.pc = "again",
                  !.again = processRespAfter(proc.out, proc.regIds,
                                             proc.httpResp, proc.out.store,
                                             0, 0)]
    /\ UNCHANGED <<sendVars, parse, mem>>

NextProcTwice == ProcCall \/ ProcAgain

SpecProcTwice == InitProcTwice /\ [][NextProcTwice]_vars

----------------------------------------------------------------------------
(***************************************************************************)
(* Specification Spec: one call of Client.Send.                            *)
(*                                                                         *)
(* Exchange is one pass through the loop body, from c.send to the jump it  *)
(* ends with: a return, the sleepHook call before `continue`, or the fall  *)
(* out of the switch to the bound check.  Sleep is sleepHook returning and *)
(* the `continue`; CheckBound is the bound check after the switch.         *)
(* resp is assigned by c.send before it is read again, so the model keeps  *)
(* resp, calls and sent for the attempt in progress only and forgets them  *)
(* at the loop head.                                                       *)
(***************************************************************************)
SendTokens == <<"a", "b", "c", "d">>
Batches == {SubSeq(SendTokens, 1, n) : n \in 1..MaxBatch}

OptionsSet ==
    {DefaultClientOptions,
     [MinBackoff |-> 2 * Second, MaxBackoff |-> 3 * Second,
      MaxRetryAttempts |-> 2]}

SendHeaders == {<<>>, <<"5">>, <<"1", "5">>, <<"-", "5">>}
SendNows == {<<TimeAt(0), TimeAt(0)>>}
SendResultKinds == {Delivered, Renamed, Unavailable, NotRegistered}
StatusCodes == {StatusOK, StatusBadRequest, StatusUnauthorized,
                StatusInternalServerError}
TransportErrors == {"dial tcp: connection refused",
                    "unexpected end of JSON input"}

\* What the transport can answer to a batch of n tokens: an error; a status
\* other than 200 with or without a Retry-After header; or 200 with a
\* Retry-After header and a body of one result per token, whose counts are
\* the honest ones or (a server that miscounts) all zero.
EmptyBody == MakeHttpResponse(<<>>, 0, 0)

NetOutcomes(n) ==
    {[err |-> e, statusCode |-> 0, header |-> <<>>, body |-> EmptyBody] :
        e \in TransportErrors}
    \cup
    {[err |-> NoError, statusCode |-> code, header |-> h, body |-> EmptyBody] :
        code \in StatusCodes \ {StatusOK}, h \in {<<>>, <<"5">>}}
    \cup
    {[err |-> NoError, statusCode |-> StatusOK, header |-> h, body |-> b] :
        h \in SendHeaders,
        b \in {HonestHttpResponse(r) : r \in SeqsOfLen(SendResultKinds, n)}
              \cup {MakeHttpResponse(r, 0, 0) :
                      r \in SeqsOfLen({NotRegistered}, n)}}

\* The responses of TestSendRetry: unavailableMsg with or without a
\* Retry-After header, and successMsg.
unavailableMsg == MakeHttpResponse(<<Unavailable>>, 1, 0)
successMsg == [Success |-> 1, Failure |-> 0, CanonicalIds |-> 0,
               Results |-> <<MakeResult("12", "", "")>>]

TestOutcomes ==
    {[err |-> NoError, statusCode |-> StatusOK, header |-> h,
      body |-> unavailableMsg] : h \in {<<>>, <<"5">>, <<"1", "5">>}}
    \cup
    {[err |-> NoError, statusCode |-> StatusOK, header |-> <<>>,
      body |-> successMsg]}

\* c.send(&m): the exchange and the decoding of its answer.
send(net, now) ==
    IF net.err # NoError THEN [resp |-> <<>>, err |-> net.err]
    ELSE LET ra == parseRetryAfter(net.header, now)
         IN  IF ra.err # NoError THEN [resp |-> <<>>, err |-> ra.err]
             ELSE [resp |-> <<[httpResp |-> net.body,
                               statusCode |-> net.statusCode,
                               retryAfter |-> ra.retryAfter]>>,
                   err |-> NoError]

\* A variant whose switch has no case for 401.
statusCaseNoUnauthorized(code) ==
    IF code = StatusBadRequest THEN "BadRequest"
    ELSE IF code = StatusOK THEN "OK"
    ELSE "default"

\* The case of Send's switch that a status code takes.
statusCase(code) ==
    IF code = StatusBadRequest THEN "BadRequest"
    ELSE IF code = StatusUnauthorized THEN "Unauthorized"
    ELSE IF code = StatusOK THEN "OK"
    ELSE "default"

\* A variant that returns the cause as it is.
WrapSendErrorBare(e) == e

WrapSendError(e) == "fcm: error sending request to FCM HTTP server: " \o e
ErrBadRequest == "Bad Request, invalid json"
ErrUnauthorized == "Unauthorized"
ErrExhausted == "Exhausted retry attempts"

\* Send is entered; the Store is whatever the caller has made it.
InitCall ==
    /\ proc = ProcIdle
    /\ parse = ParseIdle
    /\ mem = MemIdle
    /\ pc = "send"
    /\ options \in OptionsSet
    /\ registrationIds \in Batches
    /\ msgIds = registrationIds
    /\ attempts = 1
    /\ currentBackoff = options.MinBackoff
    /\ resp = <<>>
    /\ backoff = 0
    /\ calls = <<>>
    /\ storeFailed = 0
    /\ transportErr = NoError
    /\ ret = [hr |-> <<>>, err |-> NoError]
    /\ exchanges = 0
    /\ hints = <<>>
    /\ sleeps = <<>>
    /\ sent = <<>>
    /\ ctx = Background
    /\ peer = NoPeer
    /\ loop = NoLoop
    /\ fatal = FALSE

\* Send is entered with every token of its batch registered in the Store.
InitSend ==
    /\ InitCall
    /\ store = Range(registrationIds)

\* A variant that returns no batch result.
ReturnNoResult(hr, err) ==
    /\ pc' = "done"
    /\ ret' = [hr |-> <<>>, err |-> err]

\* A variant that checks the attempt bound before it returns a success.
ReturnUnlessBound(hr, err) ==
    /\ pc' = "done"
    /\ ret' = IF err = NoError /\ attempts >= options.MaxRetryAttempts
              THEN [hr |-> <<>>, err |-> ErrExhausted]
              ELSE [hr |-> hr, err |-> err]

Return(hr, err) ==
    /\ pc' = "done"
    /\ ret' = [hr |-> hr, err |-> err]

\* processResp's loop from index i on, up to its next Store call: the
\* passes that call no Store touch only toRetry.  at is "store" (the pass
\* at index i calls the Store with call), "end" (the loop is over) or
\* "panic" (registrationIds[i] is out of range).
RECURSIVE processUpTo(_, _, _, _)
processUpTo(regIds, results, i, toRetry) ==
    IF i > Len(results)
    THEN [at |-> "end", i |-> i, toRetry |-> toRetry, call |-> <<>>]
    ELSE IF i > Len(regIds)
    THEN [at |-> "panic", i |-> i, toRetry |-> toRetry, call |-> <<>>]
    ELSE
      LET regId == regIds[i]
          result == results[i]
      IN  IF result.MessageId # ""
          THEN IF result.RegistrationId # ""
               THEN [at |-> "store", i |-> i, toRetry |-> toRetry,
                     call |-> <<UpdateCall(regId, result.RegistrationId)>>]
               ELSE processUpTo(regIds, results, i + 1, toRetry)
          ELSE IF isRetry(result.Error)
          THEN processUpTo(regIds, results, i + 1, Append(toRetry, regId))
          ELSE [at |-> "store", i |-> i, toRetry |-> toRetry,
                call |-> <<DeleteCall(regId)>>]

\* The error of a Store call that fails.
StoreError(c) == IF c.op = "Update" THEN StoreUpdateError ELSE StoreDeleteError

\* Send after processResp returned (toRetry, nil) for the response rsp.
AfterProcessResp(rsp, toRetry) ==
    /\ loop' = NoLoop
    /\ IF toRetry # <<>>
       THEN /\ msgIds' = toRetry
            /\ backoff' = calcBackoff(rsp.retryAfter, currentBackoff, options)
            /\ currentBackoff' =
                 IF rsp.retryAfter = <<>>
                 THEN calcBackoff(rsp.retryAfter, currentBackoff, options)
                 ELSE currentBackoff
            /\ attempts' = attempts + 1
            /\ hints' = Append(hints, rsp.retryAfter)
            /\ pc' = "sleep"
            /\ UNCHANGED ret
       ELSE /\ Return(<<rsp.httpResp>>, NoError)
            /\ UNCHANGED <<msgIds, attempts, currentBackoff, backoff, hints>>

\* processResp runs its loop from index i on until it enters a Store call,
\* panics, or returns to Send.
ProcessFrom(rsp, i, toRetry) ==
    \E p \in {processUpTo(registrationIds, rsp.httpResp.Results, i, toRetry)} :
        IF p.at = "store"
        THEN /\ pc' = "store"
             /\ loop' = [i |-> p.i, toRetry |-> p.toRetry, call |-> p.call,
                         w |-> 0]
             /\ UNCHANGED <<ret, msgIds, attempts, currentBackoff, backoff,
                            hints>>
        ELSE IF p.at = "panic"
        THEN /\ pc' = "panic"
             /\ loop' = NoLoop
             /\ UNCHANGED <<ret, msgIds, attempts, currentBackoff, backoff,
                            hints>>
        ELSE AfterProcessResp(rsp, p.toRetry)

\* One attempt of Send, from c.send on.  With stepwise FALSE the attempt is
\* one step, up to sleepHook or Send's return: its Store calls are part of
\* the step (a call of Send that runs alone).  With stepwise TRUE the step
\* ends where processResp enters its first Store call, and StoreReturn takes
\* over (calls of Send that run concurrently).
ExchangeStep(outcomes, bound, stepwise) ==
    /\ pc = "send"
    /\ exchanges < bound
    /\ \E net \in outcomes, now \in SendNows :
         \E r \in {send(net, now)} :
             /\ exchanges' = exchanges + 1
             /\ transportErr' = net.err
             /\ sent' = msgIds
             /\ resp' = r.resp
             /\ UNCHANGED <<options, registrationIds, sleeps, ctx, fatal>>
             /\ IF r.err # NoError
                THEN /\ Return(<<>>, WrapSendError(r.err))
                     /\ calls' = <<>>
                     /\ storeFailed' = 0
                     /\ UNCHANGED <<msgIds, attempts, currentBackoff, backoff,
                                    store, hints, loop>>
                ELSE
                  LET rsp == r.resp[1]
                      sc == statusCase(rsp.statusCode)
                  IN  IF sc = "BadRequest"
                      THEN /\ Return(<<>>, ErrBadRequest)
                           /\ calls' = <<>>
                           /\ storeFailed' = 0
                           /\ UNCHANGED <<msgIds, attempts, currentBackoff,
                                          backoff, store, hints, loop>>
                      ELSE IF sc = "Unauthorized"
                      THEN /\ Return(<<>>, ErrUnauthorized)
                           /\ calls' = <<>>
                           /\ storeFailed' = 0
                           /\ UNCHANGED <<msgIds, attempts, currentBackoff,
                                          backoff, store, hints, loop>>
                      ELSE IF sc = "OK" /\ stepwise
                      THEN /\ calls' = <<>>
                           /\ storeFailed' = 0
                           /\ UNCHANGED store
                           /\ IF rsp.httpResp.Failure = 0
                                 /\ rsp.httpResp.CanonicalIds = 0
                              THEN AfterProcessResp(rsp, <<>>)
                              ELSE ProcessFrom(rsp, 1, <<>>)
                      ELSE IF sc = "OK"
                      THEN
                        \E cs \in {StoreCallsOf(registrationIds,
                                                rsp.httpResp, store)} :
                        \E failAt \in 0..Len(cs) :
                        \E wrote \in FailWrites(cs, failAt) :
                        \E pr \in {processResp(registrationIds, rsp.httpResp,
                                               store, failAt, wrote)} :
                        LET b == calcBackoff(rsp.retryAfter, currentBackoff,
                                             options)
                        IN  /\ calls' = pr.calls
                            /\ UNCHANGED loop
                            /\ storeFailed' = failAt
                            /\ store' = pr.store
                            /\ IF pr.panic
                               THEN /\ pc' = "panic"
                                    /\ UNCHANGED <<ret, msgIds, attempts,
                                                   currentBackoff, backoff,
                                                   hints>>
                               ELSE IF pr.err # NoError
                               THEN /\ Return(<<>>, pr.err)
                                    /\ UNCHANGED <<msgIds, attempts,
                                                   currentBackoff, backoff,
                                                   hints>>
                               ELSE IF pr.toRetry # <<>>
                               THEN /\ msgIds' = pr.toRetry
                                    /\ backoff' = b
                                    /\ currentBackoff' =
                                         IF rsp.retryAfter = <<>> THEN b
                                         ELSE currentBackoff
                                    /\ attempts' = attempts + 1
                                    /\ hints' = Append(hints, rsp.retryAfter)
                                    /\ pc' = "sleep"
                                    /\ UNCHANGED ret
                               ELSE /\ Return(<<rsp.httpResp>>, NoError)
                                    /\ UNCHANGED <<msgIds, attempts,
                                                   currentBackoff, backoff,
                                                   hints>>
                      ELSE /\ pc' = "bound"
                           /\ calls' = <<>>
                           /\ storeFailed' = 0
                           /\ UNCHANGED <<ret, msgIds, attempts,
                                          currentBackoff, backoff, store,
                                          hints, loop>>
    /\ UNCHANGED <<proc, parse, peer, mem>>

ExchangeOn(outcomes, bound) == ExchangeStep(outcomes, bound, FALSE)

\* An attempt of Send against a transport that may answer anything.
Exchange == ExchangeOn(NetOutcomes(Len(msgIds)), MaxExchanges)

\* An attempt of Send against the mock HttpClient of TestSendRetry.
TestExchange == ExchangeOn(TestOutcomes, MaxTestExchanges)

\* sleepHook(backoff) returns; `continue` jumps to the loop head.
Sleep ==
    /\ pc = "sleep"
    /\ sleeps' = Append(sleeps, backoff)
    /\ pc' = "send"
    /\ resp' = <<>>
    /\ calls' = <<>>
    /\ storeFailed' = 0
    /\ transportErr' = NoError
    /\ sent' = <<>>
    /\ backoff' = 0
    /\ UNCHANGED <<options, registrationIds, msgIds, attempts, currentBackoff,
                   store, ret, exchanges, hints, ctx, peer, loop, fatal,
                   proc, parse, mem>>

\* The bound check that follows the switch.
CheckBound ==
    /\ pc = "bound"
    /\ IF attempts >= options.MaxRetryAttempts + 1
       THEN /\ Return(<<>>, ErrExhausted)
            /\ UNCHANGED <<resp, calls, storeFailed, transportErr, sent>>
       ELSE /\ pc' = "send"
            /\ resp' = <<>>
            /\ calls' = <<>>
            /\ storeFailed' = 0
            /\ transportErr' = NoError
            /\ sent' = <<>>
            /\ UNCHANGED ret
    /\ UNCHANGED <<options, registrationIds, msgIds, attempts, currentBackoff,
                   backoff, store, exchanges, hints, sleeps, ctx, peer, loop,
                   fatal, proc, parse, mem>>

Next == Exchange \/ Sleep \/ CheckBound

Init == InitSend

Spec == Init /\ [][Next]_vars

(***************************************************************************)
(* Specification SpecRetry: Client.Send as TestSendRetry drives it: the    *)
(* default options, the batch <<"a", "b">>, a Store whose calls succeed    *)
(* and a mock HttpClient that answers 200 with one of the test's bodies.   *)
(***************************************************************************)
InitRetry ==
    /\ InitCall
    /\ options = DefaultClientOptions
    /\ registrationIds = <<"a", "b">>
    /\ store = {}

NextRetry == TestExchange \/ Sleep

SpecRetry == InitRetry /\ [][NextRetry]_vars

(***************************************************************************)
(* Specification SpecCancel: the same run of Client.Send under a context   *)
(* that its caller may cancel (or whose deadline may pass) while Send is   *)
(* in c.send or in sleepHook.  Send hands ctx to processResp, which hands  *)
(* it to the Store; c.send and sleepHook do not receive it.                *)
(***************************************************************************)
Cancel ==
    /\ ~ctx.done
    /\ pc \in {"send", "sleep"}
    /\ ctx' = [done |-> TRUE, at |-> pc, after |-> exchanges]
    /\ UNCHANGED <<pc, options, registrationIds, msgIds, attempts,
                   currentBackoff, resp, backoff, store, calls, storeFailed,
                   transportErr, ret, exchanges, hints, sleeps, sent, peer,
                   loop, fatal, proc, parse, mem>>

NextCancel == TestExchange \/ Sleep \/ Cancel

SpecCancel == InitRetry /\ [][NextCancel]_vars

(***************************************************************************)
(* Specification SpecPair: two calls of Client.Send running concurrently   *)
(* on one client, so on one Store and one set of options.  The variables   *)
(* of Spec are the locals of the call that runs now, peer holds those of   *)
(* the other, and Switch is the scheduler turning to the other call.       *)
(* Send keeps its state in locals and in its by-value parameter m, so a    *)
(* turn of the scheduler exchanges all of it.  The scheduler may turn at   *)
(* c.send, inside sleepHook and, inside a Store call, before and after     *)
(* each write to the Store's map; what a call does between two of these    *)
(* touches its locals only.                                                *)
(***************************************************************************)
MaxPairExchanges == 2

\* The locals of the running call.
Locals ==
    [id |-> 3 - peer.id, pc |-> pc, registrationIds |-> registrationIds,
     msgIds |-> msgIds, attempts |-> attempts,
     currentBackoff |-> currentBackoff, resp |-> resp, backoff |-> backoff,
     calls |-> calls, storeFailed |-> storeFailed,
     transportErr |-> transportErr, ret |-> ret, exchanges |-> exchanges,
     hints |-> hints, sleeps |-> sleeps, sent |-> sent, ctx |-> ctx,
     loop |-> loop]

\* A variant that keeps currentBackoff in the Client, for all calls.
currentBackoffOfClient(call) == currentBackoff

\* Where a call finds its currentBackoff: in its own locals.
currentBackoffOf(call) == call.currentBackoff

PairKinds == {Unavailable, NotRegistered}

\* What the server answers to a batch of n tokens: 200 with or without a
\* Retry-After value and one result per token, retry-eligible or terminal;
\* or 200 without Retry-After and every token renamed.
PairOutcomes(n) ==
    {[err |-> NoError, statusCode |-> StatusOK, header |-> h,
      body |-> HonestHttpResponse(r)] :
        h \in {<<>>, <<"5">>}, r \in SeqsOfLen(PairKinds, n)}
    \cup
    {[err |-> NoError, statusCode |-> StatusOK, header |-> <<>>,
      body |-> HonestHttpResponse(r)] :
        r \in SeqsOfLen({Renamed}, n)}

InitPair ==
    /\ proc = ProcIdle
    /\ parse = ParseIdle
    /\ mem = MemIdle
    /\ options \in OptionsSet
    /\ pc = "send"
    /\ registrationIds = SubSeq(SendTokens, 1, MaxBatch)
    /\ msgIds = registrationIds
    /\ attempts = 1
    /\ currentBackoff = options.MinBackoff
    /\ resp = <<>>
    /\ backoff = 0
    /\ calls = <<>>
    /\ storeFailed = 0
    /\ transportErr = NoError
    /\ ret = [hr |-> <<>>, err |-> NoError]
    /\ exchanges = 0
    /\ hints = <<>>
    /\ sleeps = <<>>
    /\ sent = <<>>
    /\ ctx = Background
    /\ loop = NoLoop
    /\ fatal = FALSE
    /\ peer = NewCall(2, SubSeq(SendTokens, MaxBatch, MaxBatch), options)
    /\ store = Range(registrationIds) \cup Range(peer.registrationIds)

PairExchange ==
    /\ ~fatal
    /\ ExchangeStep(PairOutcomes(Len(msgIds)), MaxPairExchanges, TRUE)

\* A call of Send is inside a Store call and has a write to the map yet to
\* make.
WritePending(call) ==
    /\ call.pc = "store"
    /\ call.loop.w < Len(StoreWrites(call.loop.call[1]))

\* The Store call makes its next write to the map.  The Store is called with
\* nothing held: when the other call of Send has a write pending too, the
\* two may write the one map at the same time, a data race: the write
\* lands, or the map loses it, or the runtime stops the process.
StoreWrite ==
    /\ ~fatal
    /\ WritePending(Locals)
    /\ \E outcome \in IF WritePending(peer)
                       THEN {"written", "lost", "fatal"}
                       ELSE {"written"} :
         IF outcome = "fatal"
         THEN /\ fatal' = TRUE
              /\ UNCHANGED <<store, loop>>
         ELSE /\ UNCHANGED fatal
              /\ loop' = [loop EXCEPT !.w = @ + 1]
              /\ store' = IF outcome = "written"
                          THEN MapWrite(store,
                                        StoreWrites(loop.call[1])[loop.w + 1])
                          ELSE store
    /\ UNCHANGED <<pc, options, registrationIds, msgIds, attempts,
                   currentBackoff, resp, backoff, calls, storeFailed,
                   transportErr, ret, exchanges, hints, sleeps, sent, ctx,
                   peer, proc, parse, mem>>

\* c.store.Update / c.store.Delete returns to processResp: with nil once
\* its writes are made, or with an error, whatever it has written so far.
StoreReturn ==
    /\ ~fatal
    /\ pc = "store"
    /\ \E outcome \in {"error"}
                       \cup (IF WritePending(Locals) THEN {} ELSE {"nil"}) :
         /\ calls' = Append(calls, loop.call[1])
         /\ IF outcome = "error"
            THEN /\ storeFailed' = Len(calls) + 1
                 /\ Return(<<>>, StoreError(loop.call[1]))
                 /\ loop' = NoLoop
                 /\ UNCHANGED <<msgIds, attempts, currentBackoff, backoff,
                                hints>>
            ELSE /\ UNCHANGED storeFailed
                 /\ ProcessFrom(resp[1], loop.i + 1, loop.toRetry)
    /\ UNCHANGED <<options, registrationIds, resp, transportErr, exchanges,
                   sleeps, sent, ctx, peer, store, fatal, proc, parse, mem>>

PairSleep == ~fatal /\ Sleep

Switch ==
    /\ ~fatal
    /\ peer.pc \in {"send", "store", "sleep"}
    /\ peer' = Locals
    /\ pc' = peer.pc
    /\ registrationIds' = peer.registrationIds
    /\ msgIds' = peer.msgIds
    /\ attempts' = peer.attempts
    /\ currentBackoff' = currentBackoffOf(peer)
    /\ resp' = peer.resp
    /\ backoff' = peer.backoff
    /\ calls' = peer.calls
    /\ storeFailed' = peer.storeFailed
    /\ transportErr' = peer.transportErr
    /\ ret' = peer.ret
    /\ exchanges' = peer.exchanges
    /\ hints' = peer.hints
    /\ sleeps' = peer.sleeps
    /\ sent' = peer.sent
    /\ ctx' = peer.ctx
    /\ loop' = peer.loop
    /\ UNCHANGED <<options, store, fatal, proc, parse, mem>>

NextPair == PairExchange \/ StoreWrite \/ StoreReturn \/ PairSleep \/ Switch

SpecPair == InitPair /\ [][NextPair]_vars

-----------------------------------------------------------------------------
(***************************************************************************)
(* Specification SpecMem: the example server's MemStore, a map from        *)
(* registration id to true.  One call of Update, Delete, Add or List on    *)
(* one map, or one processResp over a single token whose result is a       *)
(* terminal failure, with the MemStore as the Client's Store.              *)
(***************************************************************************)
MaxMemTokens == 3

MemTokens == {ProcTokens[i] : i \in 1..MaxMemTokens}

\* fmt.Errorf("Update error: Could not find RegID: %s ", oldRegId)
MemUpdateError(oldRegId) ==
    "Update error: Could not find RegID: " \o oldRegId \o " "

\* fmt.Errorf("Delete error: Could not find RegID: %s ", regId)
MemDeleteError(regId) ==
    "Delete error: Could not find RegID: " \o regId \o " "

MemStoreUpdate(regIds, oldRegId, newRegId) ==
    IF oldRegId \in regIds
    THEN [regIds |-> (regIds \ {oldRegId}) \cup {newRegId}, err |-> NoError]
    ELSE [regIds |-> regIds, err |-> MemUpdateError(oldRegId)]

\* The map loses the token if it holds it; the return statement is the
\* same on both paths.
MemStoreDelete(regIds, regId) ==
    [regIds |-> IF regId \in regIds THEN regIds \ {regId} ELSE regIds,
     err |-> MemDeleteError(regId)]

\* m.regIds[regId] = true
MemStoreAdd(regIds, regId) == regIds \cup {regId}

\* The keys of the map, in an order that `range` is free to choose.
MemStoreList(regIds) ==
    {l \in SeqsOfLen(regIds, Cardinality(regIds)) : Range(l) = regIds}

InitMem ==
    /\ SendIdle
    /\ proc = ProcIdle
    /\ parse = ParseIdle
    /\ \E op \in {"Update", "Delete", "Add", "List", "processResp"},
          regIds \in SUBSET MemTokens, oldRegId \in MemTokens,
          newRegId \in MemTokens :
         /\ op # "Update" => newRegId = oldRegId
         /\ op = "List" => oldRegId = ProcTokens[1]
         /\ mem = [pc |-> "call", op |-> op, regIds |-> regIds,
                   oldRegId |-> IF op = "List" THEN "" ELSE oldRegId,
                   newRegId |-> IF op = "Update" THEN newRegId ELSE "",
                   after |-> regIds, list |-> <<>>, err |-> NoError]

MemUpdate ==
    /\ mem.pc = "call"
    /\ mem.op = "Update"
    /\ \E r \in {MemStoreUpdate(mem.regIds, mem.oldRegId, mem.newRegId)} :
         mem' = [mem EXCEPT !.pc = "returned", !.after = r.regIds,
                            !.err = r.err]
    /\ UNCHANGED <<sendVars, proc, parse>>

MemDelete ==
    /\ mem.pc = "call"
    /\ mem.op = "Delete"
    /\ \E r \in {MemStoreDelete(mem.regIds, mem.oldRegId)} :
         mem' = [mem EXCEPT !.pc = "returned", !.after = r.regIds,
                            !.err = r.err]
    /\ UNCHANGED <<sendVars, proc, parse>>

MemAdd ==
    /\ mem.pc = "call"
    /\ mem.op = "Add"
    /\ mem' = [mem EXCEPT !.pc = "returned",
                          !.after = MemStoreAdd(mem.regIds, mem.oldRegId)]
    /\ UNCHANGED <<sendVars, proc, parse>>

MemList ==
    /\ mem.pc = "call"
    /\ mem.op = "List"
    /\ \E l \in MemStoreList(mem.regIds) :
         mem' = [mem EXCEPT !.pc = "returned", !.list = l]
    /\ UNCHANGED <<sendVars, proc, parse>>

\* processResp on the batch <<oldRegId>> and a response with the one result
\* "NotRegistered": its single Store call is c.store.Delete(ctx, regId) on
\* the MemStore, and the call's error is what processResp returns.
MemProcessResp ==
    /\ mem.pc = "call"
    /\ mem.op = "processResp"
    /\ \E r \in {MemStoreDelete(mem.regIds, mem.oldRegId)} :
       \E out \in {processResp(<<mem.oldRegId>>,
                               HonestHttpResponse(<<NotRegistered>>),
                               mem.regIds,
                               IF r.err # NoError THEN 1 ELSE 0,
                               IF r.regIds # mem.regIds THEN 1 ELSE 0)} :
         mem' = [mem EXCEPT !.pc = "returned", !.after = out.store,
                            !.err = IF out.err # NoError THEN r.err
                                    ELSE NoError]
    /\ UNCHANGED <<sendVars, proc, parse>>

NextMem == MemUpdate \/ MemDelete \/ MemAdd \/ MemList \/ MemProcessResp

SpecMem == InitMem /\ [][NextMem]_vars

-----------------------------------------------------------------------------
(***************************************************************************)
(* Specification SpecWait: Client.Send on the batch <<"a">>, under either  *)
(* set of options, against a server that answers 200 "Unavailable" with    *)
(* any of a range of Retry-After values (none, zero, below and above       *)
(* MinBackoff, above MaxBackoff, negative), 200 with success, or 500.      *)
(***************************************************************************)
MaxWaitExchanges == 4

WaitHeaders == {<<>>, <<"0">>, <<"1">>, <<"-", "5">>, <<"5">>, <<"1", "5">>}

WaitOutcomes ==
    {[err |-> NoError, statusCode |-> StatusOK, header |-> h,
      body |-> unavailableMsg] : h \in WaitHeaders}
    \cup
    {[err |-> NoError, statusCode |-> StatusOK, header |-> <<>>,
      body |-> successMsg],
     [err |-> NoError, statusCode |-> StatusInternalServerError,
      header |-> <<>>, body |-> EmptyBody]}

InitWait ==
    /\ InitSend
    /\ registrationIds = <<"a">>

WaitExchange == ExchangeOn(WaitOutcomes, MaxWaitExchanges)

NextWait == WaitExchange \/ Sleep \/ CheckBound

SpecWait == InitWait /\ [][NextWait]_vars

----------------------------------------------------------------------------
(***************************************************************************)
(* What reconciliation of a token sequence against a result sequence is    *)
(* to produce, read off the result classes: the retry subset, and the      *)
(* Store call each position asks for (none, or one).                       *)
(***************************************************************************)
RECURSIVE RetryOf(_, _)
RetryOf(toks, results) ==
    IF toks = <<>> \/ results = <<>> THEN <<>>
    ELSE (IF IsRetryResult(Head(results)) THEN <<Head(toks)>> ELSE <<>>)
         \o RetryOf(Tail(toks), Tail(results))

CallAt(toks, results, i) ==
    IF IsRename(results[i])
    THEN <<UpdateCall(toks[i], results[i].RegistrationId)>>
    ELSE IF IsTerminal(results[i]) THEN <<DeleteCall(toks[i])>>
    ELSE <<>>

RECURSIVE CallsFrom(_, _, _)
CallsFrom(toks, results, i) ==
    IF i > Len(toks) \/ i > Len(results) THEN <<>>
    ELSE CallAt(toks, results, i) \o CallsFrom(toks, results, i + 1)

CallsOf(toks, results) == CallsFrom(toks, results, 1)

Occurrences(q, x) == Cardinality({k \in DOMAIN q : q[k] = x})

RECURSIVE Sum(_)
Sum(q) == IF q = <<>> THEN 0 ELSE Head(q) + Sum(Tail(q))

Max(a, b) == IF a >= b THEN a ELSE b
Clamp(x, lo, hi) == IF x > hi THEN hi ELSE IF x < lo THEN lo ELSE x

\* Every response so far was a 200 whose reconciliation left tokens to retry.
OnlyRetryAnswers == exchanges = Len(hints)

----------------------------------------------------------------------------
(***************************************************************************)
(* C1.  With maxAttempts = N and every attempt answered by a 200 whose     *)
(* reconciliation yields a non-empty retry set, Send makes exactly N       *)
(* exchanges and then returns the retries-exhausted error: it never makes  *)
(* an (N+1)-th exchange, and after the N-th such answer it has returned    *)
(* that error.  (Specification SpecRetry.)                                 *)
(***************************************************************************)
C1_ExhaustsAfterMaxAttempts ==
    OnlyRetryAnswers =>
        /\ exchanges <= options.MaxRetryAttempts
        /\ exchanges = options.MaxRetryAttempts =>
             pc = "done" /\ ret.err = ErrExhausted

(***************************************************************************)
(* C2.  The attempt bound holds on every retry path: in a run whose        *)
(* answers so far were 200-with-retry answers and statuses other than      *)
(* 200, 400 and 401, at least one of the latter, Send has made at most     *)
(* maxAttempts exchanges.  (Specification Spec.)                           *)
(***************************************************************************)
C2_BoundOnUnhandledStatus ==
    (pc \in {"send", "sleep", "bound"} /\ exchanges > Len(hints)) =>
        exchanges <= options.MaxRetryAttempts

(***************************************************************************)
(* C3.  On every attempt, result i is reconciled against token i of the    *)
(* batch sent in that attempt: after an accepted answer that is not on the *)
(* fast path and whose Store calls succeed, the Store calls made are those *)
(* the results ask for on the tokens sent, and the retry subset is made of *)
(* the tokens sent whose result is retry-eligible.  (Specification Spec.)  *)
(***************************************************************************)
Reconciled ==
    /\ pc \in {"sleep", "done"}
    /\ resp # <<>>
    /\ resp[1].statusCode = StatusOK
    /\ ~(resp[1].httpResp.Failure = 0 /\ resp[1].httpResp.CanonicalIds = 0)
    /\ ret.err = NoError

C3_ReconciledAgainstSentBatch ==
    Reconciled =>
        /\ calls = CallsOf(sent, resp[1].httpResp.Results)
        /\ pc = "sleep" => msgIds = RetryOf(sent, resp[1].httpResp.Results)
        /\ pc = "done" => RetryOf(sent, resp[1].httpResp.Results) = <<>>

(***************************************************************************)
(* C4.  One call of processResp on a token sequence and an equally long    *)
(* result sequence that reports a failure or a rename.                     *)
(* C4_Original: the retry set is the tokens paired with retry-eligible     *)
(* results, in order, and every Store call the results ask for is made     *)
(* exactly as often as a position asks for it, no other call being made.   *)
(* C4_WhenStoreSucceeds: the same, for the calls in which no Store call    *)
(* returns an error.  (Specification SpecProc.)                            *)
(***************************************************************************)
ProcResults == proc.httpResp.Results

ProcCase ==
    /\ proc.pc = "returned"
    /\ Len(proc.regIds) = Len(ProcResults)
    /\ ~(proc.httpResp.Failure = 0 /\ proc.httpResp.CanonicalIds = 0)

ProcAsAsked ==
    /\ ~proc.out.panic
    /\ proc.out.toRetry = RetryOf(proc.regIds, ProcResults)
    /\ \A c \in Range(proc.out.calls) \cup Range(CallsOf(proc.regIds, ProcResults)) :
         Occurrences(proc.out.calls, c) =
           Cardinality({i \in DOMAIN ProcResults :
                          CallAt(proc.regIds, ProcResults, i) = <<c>>})

C4_Original == ProcCase => ProcAsAsked

C4_WhenStoreSucceeds == (ProcCase /\ proc.out.err = NoError) => ProcAsAsked

\* Delivered, retry-eligible, terminal and renamed results in one call.
C4_Witness ==
    /\ ProcCase
    /\ proc.out.err = NoError
    /\ ProcResults = <<Delivered, Unavailable, NotRegistered, Renamed>>
    /\ proc.out.toRetry = <<"8">>
    /\ proc.out.calls = <<DeleteCall("15"), UpdateCall("16", "32")>>
    /\ proc.out.store = {"4", "8", "32"}

(***************************************************************************)
(* C5.  When a retry is decided and the response carries a wait hint, the  *)
(* wait handed to the sleep hook is max(hint, MinBackoff), whether or not  *)
(* that exceeds MaxBackoff, and currentBackoff keeps its value.            *)
(* (Specification Spec.)                                                   *)
(***************************************************************************)
C5_HintedWait ==
    [][(pc = "send" /\ pc' = "sleep" /\ resp'[1].retryAfter # <<>>) =>
          /\ backoff' = Max(resp'[1].retryAfter[1], options.MinBackoff)
          /\ currentBackoff' = currentBackoff]_vars

\* A hint above MaxBackoff, honoured after a computed wait moved
\* currentBackoff off MinBackoff.
C5_Witness ==
    /\ pc = "sleep"
    /\ options = DefaultClientOptions
    /\ hints = << <<>>, <<15 * Second>> >>
    /\ backoff = 15 * Second
    /\ currentBackoff = 2 * Second

(***************************************************************************)
(* C6.  When a retry is decided and the response carries no wait hint, the *)
(* wait is currentBackoff * 2 clamped into [MinBackoff, MaxBackoff] and    *)
(* becomes the new currentBackoff; the first such wait of a Send is        *)
(* 2 * MinBackoff when that does not exceed MaxBackoff; and for the        *)
(* answers [hint 5s, none, none, hint 15s, success] under the default      *)
(* options the waits sum to 26s.  (Specification SpecRetry.)               *)
(***************************************************************************)
FirstComputedWait ==
    /\ pc = "sleep"
    /\ hints # <<>>
    /\ hints[Len(hints)] = <<>>
    /\ \A i \in 1..(Len(hints) - 1) : hints[i] # <<>>

TestSendRetryScript ==
    /\ pc = "done"
    /\ ret.err = NoError
    /\ options = DefaultClientOptions
    /\ hints = << <<5 * Second>>, <<>>, <<>>, <<15 * Second>> >>

C6_ComputedWait ==
    /\ [][(pc = "send" /\ pc' = "sleep" /\ resp'[1].retryAfter = <<>>) =>
             /\ backoff' = Clamp(currentBackoff * 2, options.MinBackoff,
                                 options.MaxBackoff)
             /\ currentBackoff' = backoff']_vars
    /\ [][(pc = "sleep" /\ pc' = "send") => sleeps' = Append(sleeps, backoff)]_vars
    /\ []((FirstComputedWait /\ 2 * options.MinBackoff <= options.MaxBackoff)
             => backoff = 2 * options.MinBackoff)
    /\ [](TestSendRetryScript => Sum(sleeps) = 26 * Second)

C6_Witness ==
    /\ TestSendRetryScript
    /\ sleeps = <<5 * Second, 2 * Second, 4 * Second, 15 * Second>>
    /\ ret.hr = <<successMsg>>

(***************************************************************************)
(* C7.  Fast path: when the response reports zero failures and zero        *)
(* canonical ids, processResp returns an empty retry set and no error and  *)
(* makes no Store call, whatever the results are.  (Specification          *)
(* SpecProc.)                                                              *)
(***************************************************************************)
ProcFastPath ==
    /\ proc.pc = "returned"
    /\ proc.httpResp.Failure = 0
    /\ proc.httpResp.CanonicalIds = 0

C7_FastPath ==
    ProcFastPath =>
        /\ proc.out.toRetry = <<>>
        /\ proc.out.err = NoError
        /\ proc.out.calls = <<>>
        /\ proc.out.store = proc.store0
        /\ ~proc.out.panic

\* Zero counts over results that carry an error and a replacement token.
C7_Witness ==
    /\ ProcFastPath
    /\ proc.regIds = <<"4", "8", "15">>
    /\ ProcResults = <<NotRegistered, Renamed, Unavailable>>
    /\ proc.out.calls = <<>>
    /\ proc.out.toRetry = <<>>

(***************************************************************************)
(* C8.  parseRetryAfter: an empty value gives no hint; a bare decimal      *)
(* integer n gives n seconds; an HTTP date after now gives the time to it; *)
(* an HTTP date before now gives no hint; any value that is neither a      *)
(* decimal integer nor an HTTP date gives no hint; and no value gives an   *)
(* error.  (Specification SpecParse.)                                      *)
(***************************************************************************)
IsDecimalInteger(date) ==
    date # <<>> /\ \A i \in DOMAIN date : date[i] \in Digits
IsHttpDate(date) == \E e \in HttpDates : e.text = date
InstantOf(date) == (CHOOSE e \in HttpDates : e.text = date).t.d

\* The clock read the same both times parseRetryAfter asked.
SteadyClock == parse.now[1] = parse.now[2]

C8_EmptyValue == parse.date = <<>> => parse.retryAfter = <<>>
C8_Integer ==
    IsDecimalInteger(parse.date) =>
        parse.retryAfter = <<DecimalValue(parse.date) * Second>>
C8_FutureDate ==
    (IsHttpDate(parse.date) /\ SteadyClock
       /\ InstantOf(parse.date) > parse.now[1].d) =>
        parse.retryAfter = <<InstantOf(parse.date) - parse.now[1].d>>
C8_PastDate ==
    (IsHttpDate(parse.date) /\ SteadyClock
       /\ InstantOf(parse.date) < parse.now[1].d) =>
        parse.retryAfter = <<>>
C8_Malformed ==
    (parse.date # <<>> /\ ~IsDecimalInteger(parse.date)
       /\ ~IsHttpDate(parse.date)) => parse.retryAfter = <<>>

C8_ParseRetryAfter ==
    parse.pc = "returned" =>
        /\ parse.err = NoError
        /\ C8_EmptyValue
        /\ C8_Integer
        /\ C8_FutureDate
        /\ C8_PastDate
        /\ C8_Malformed

(***************************************************************************)
(* C9.  parseRetryAfter never returns a negative duration.  (Specification *)
(* SpecParse.)                                                             *)
(***************************************************************************)
C9_NeverNegative ==
    (parse.pc = "returned" /\ parse.retryAfter # <<>>) =>
        parse.retryAfter[1] >= 0

(***************************************************************************)
(* C10.  When an attempt is answered with status 400 or 401, Send returns  *)
(* an error in that step: no Store call is made, the Store, the batch and  *)
(* the backoff state are as before, nothing is handed to the sleep hook,   *)
(* and once Send has returned it makes no further step.  (Specification    *)
(* Spec.)                                                                  *)
(***************************************************************************)
C10_RejectedAtOnce ==
    /\ [][(pc = "send" /\ resp' # <<>>
             /\ resp'[1].statusCode \in {StatusBadRequest, StatusUnauthorized}) =>
            /\ pc' = "done"
            /\ ret'.hr = <<>>
            /\ ret'.err = (IF resp'[1].statusCode = StatusBadRequest
                           THEN ErrBadRequest ELSE ErrUnauthorized)
            /\ calls' = <<>>
            /\ store' = store
            /\ sleeps' = sleeps
            /\ UNCHANGED <<msgIds, attempts, currentBackoff, backoff, hints>>]_vars
    /\ [][pc # "done"]_vars

\* A 401 on the third attempt, after two waits.
C10_Witness ==
    /\ pc = "done"
    /\ resp # <<>>
    /\ resp[1].statusCode = StatusUnauthorized
    /\ ret.err = ErrUnauthorized
    /\ attempts = 3
    /\ Len(sleeps) = 2
    /\ exchanges = 3

(***************************************************************************)
(* C11.  When a Store call fails while an accepted answer is reconciled,   *)
(* reconciliation stops there: the failing call is the last Store call of  *)
(* the attempt, Send returns the Store's error as it is, with no batch     *)
(* result, in that step, nothing is handed to the sleep hook, the batch,   *)
(* the attempt count and the backoff state are as before, the Store calls  *)
(* made before the failing one stay applied (the Store is what they left,  *)
(* and on top of it what the failing call itself wrote before it returned  *)
(* its error), and once Send has returned it makes no further step.        *)
(* (Specification Spec.)                                                   *)
(***************************************************************************)
ApplyCall(st, c) ==
    IF c.op = "Update" THEN (st \ {c.regId}) \cup {c.newRegId}
    ELSE st \ {c.regId}

RECURSIVE ApplyCalls(_, _)
ApplyCalls(st, cs) ==
    IF cs = <<>> THEN st ELSE ApplyCalls(ApplyCall(st, Head(cs)), Tail(cs))

C12_TransportErrorEnds ==
    /\ [][(pc = "send" /\ transportErr' # NoError) =>
            /\ pc' = "done"
            /\ ret' = [hr |-> <<>>, err |-> WrapSendError(transportErr')]
            /\ ret'.err # transportErr'
            /\ calls' = <<>>
            /\ store' = store
            /\ sleeps' = sleeps
            /\ UNCHANGED <<msgIds, attempts, currentBackoff, backoff, hints>>]_vars
    /\ [][pc = "done" => (exchanges' = exchanges /\ sleeps' = sleeps)]_vars

\* An undecodable body on the third attempt, after two waits.
C12_Witness ==
    /\ pc = "done"
    /\ transportErr = "unexpected end of JSON input"
    /\ exchanges = 3
    /\ attempts = 3
    /\ Len(sleeps) = 2
    /\ ret.err = WrapSendError("unexpected end of JSON input")

(***************************************************************************)
(* C13.  Send is cancellable: once the context is done, having fired while *)
(* Send was in its backoff wait or in an exchange, Send starts no further  *)
(* exchange: the only exchange that completes afterwards is the one that   *)
(* was under way when it fired.  (Specification SpecCancel.)               *)
(***************************************************************************)
C13_NoExchangeAfterCancel ==
    [][(ctx.done /\ exchanges' > exchanges) =>
          (ctx.at = "send" /\ exchanges = ctx.after)]_vars

(***************************************************************************)
(* C14.  Send returns success exactly when an attempt gets a 200 whose     *)
(* reconciliation completes with an empty retry subset: in the step that   *)
(* receives such an answer Send returns that answer's batch result and no  *)
(* error, without a wait; whenever Send has returned without error, its    *)
(* last answer was such a one and its batch result is the one returned;    *)
(* and whenever Send has returned an error it has returned no batch        *)
(* result.  (Specification Spec.)                                          *)
(***************************************************************************)
\* The retry subset reconciliation yields for the tokens toks: none on the
\* fast path, else the tokens whose result is retry-eligible.
YieldedRetry(toks, httpResp) ==
    IF httpResp.Failure = 0 /\ httpResp.CanonicalIds = 0 THEN <<>>
    ELSE RetryOf(toks, httpResp.Results)

\* The latest answer r to the batch toks: a 200 with nothing left to retry.
AcceptedAndSettled(r, toks, failed) ==
    /\ r # <<>>
    /\ r[1].statusCode = StatusOK
    /\ failed = 0
    /\ YieldedRetry(toks, r[1].httpResp) = <<>>

C14_SuccessExactly ==
    /\ [][(pc = "send" /\ AcceptedAndSettled(resp', sent', storeFailed')) =>
            /\ pc' = "done"
            /\ ret' = [hr |-> <<resp'[1].httpResp>>, err |-> NoError]
            /\ sleeps' = sleeps]_vars
    /\ []((pc = "done" /\ ret.err = NoError) =>
            /\ AcceptedAndSettled(resp, sent, storeFailed)
            /\ ret.hr = <<resp[1].httpResp>>)
    /\ []((pc = "done" /\ ret.err # NoError) => ret.hr = <<>>)
    /\ [](pc # "done" => ret = [hr |-> <<>>, err |-> NoError])

\* Success on the third attempt, after two waits and a narrowing.
C14_Witness ==
    /\ pc = "done"
    /\ ret.err = NoError
    /\ registrationIds = <<"a", "b">>
    /\ sent = <<"b">>
    /\ exchanges = 3
    /\ Len(sleeps) = 2
    /\ ret.hr = <<HonestHttpResponse(<<Delivered>>)>>

(***************************************************************************)
(* C15.  Every answer that leads to another attempt, a status other than   *)
(* 200, 400 and 401 included, is followed by an increment of the attempt   *)
(* count and one wait before the next exchange: whenever Send is about to  *)
(* make an exchange, it has made as many waits as exchanges, and attempts  *)
(* is one more than the exchanges made.  (Specification Spec.)             *)
(***************************************************************************)
C15_OneWaitBetweenExchanges ==
    pc = "send" => (Len(sleeps) = exchanges /\ attempts = exchanges + 1)

(***************************************************************************)
(* C16.  Narrowing is monotone: when an attempt decides a retry, the batch *)
(* of the next attempt is a subsequence of the batch just sent (same       *)
(* relative order, no other token).  (Specification Spec.)                 *)
(***************************************************************************)
RECURSIVE IsSubsequence(_, _)
IsSubsequence(q, of) ==
    IF q = <<>> THEN TRUE
    ELSE IF of = <<>> THEN FALSE
    ELSE IF Head(q) = Head(of) THEN IsSubsequence(Tail(q), Tail(of))
    ELSE IsSubsequence(q, Tail(of))

C16_NarrowingMonotone ==
    [][(pc = "send" /\ pc' = "sleep") => IsSubsequence(msgIds', sent')]_vars

(***************************************************************************)
(* C17.  When the Retry-After value is an HTTP date whose instant is not   *)
(* after now, the instant now itself included, parseRetryAfter returns no  *)
(* hint (and so never a zero-length hint from a date).  Stated for a clock *)
(* that reads now both times parseRetryAfter asks.  (Specification         *)
(* SpecParse.)                                                             *)
(***************************************************************************)
C17_StaleDateNoHint ==
    (parse.pc = "returned" /\ IsHttpDate(parse.date) /\ SteadyClock
       /\ InstantOf(parse.date) <= parse.now[1].d) =>
        parse.retryAfter = <<>>

(***************************************************************************)
(* C18.  Every result the reconciliation loop reaches is treated by its    *)
(* class, and the class is a function of the result: with a message id it  *)
(* is delivered, whatever its error field (its token is not retried and    *)
(* not deleted, and is updated iff the result carries a replacement        *)
(* token); without a message id it is retry-eligible iff its reason is     *)
(* "Unavailable" or "InternalServerError" (its token is retried and no     *)
(* Store call is made for it); every other result without a message id,    *)
(* one with an empty or unknown reason included, is terminal (Delete is    *)
(* called on its token, which is not retried).  (Specification SpecProc.)  *)
(***************************************************************************)
TransientReasons == {"Unavailable", "InternalServerError"}

ClassOf(r) ==
    IF r.MessageId # ""
    THEN IF r.RegistrationId # "" THEN "renamed" ELSE "delivered"
    ELSE IF r.Error \in TransientReasons THEN "retry" ELSE "terminal"

\* The position the loop stopped at: that of the failing Store call, or of
\* the last result that has a token.
LastReached ==
    IF proc.out.err = NoError
    THEN IF Len(ProcResults) < Len(proc.regIds) THEN Len(ProcResults)
         ELSE Len(proc.regIds)
    ELSE CHOOSE i \in DOMAIN proc.regIds :
           proc.regIds[i] = proc.out.calls[Len(proc.out.calls)].regId

CallsOn(tok) == {c \in Range(proc.out.calls) : c.regId = tok}

TreatedByClass(i) ==
    LET r == ProcResults[i]
        tok == proc.regIds[i]
        retried == tok \in Range(proc.out.toRetry)
    IN  /\ ClassOf(r) = "delivered" => (CallsOn(tok) = {} /\ ~retried)
        /\ ClassOf(r) = "renamed" =>
              (CallsOn(tok) = {UpdateCall(tok, r.RegistrationId)} /\ ~retried)
        /\ ClassOf(r) = "retry" =>
              (CallsOn(tok) = {} /\ (proc.out.err = NoError => retried))
        /\ ClassOf(r) = "terminal" =>
              (CallsOn(tok) = {DeleteCall(tok)} /\ ~retried)

C18_TreatedByClass ==
    (proc.pc = "returned"
       /\ ~(proc.httpResp.Failure = 0 /\ proc.httpResp.CanonicalIds = 0)) =>
        \A i \in 1..LastReached : TreatedByClass(i)

\* An error field beside a message id, an empty reason, an unknown reason
\* and a transient reason in one call.
C18_Witness ==
    /\ proc.pc = "returned"
    /\ proc.httpResp.Failure = 1
    /\ proc.regIds = <<"4", "8", "15", "16">>
    /\ ProcResults = <<DeliveredWithError, NoReason, InvalidRegistration,
                       InternalServerError>>
    /\ proc.out.err = NoError
    /\ proc.out.toRetry = <<"16">>
    /\ proc.out.calls = <<DeleteCall("8"), DeleteCall("15")>>

RECURSIVE WaitsFrom(_, _, _)
WaitsFrom(hs, cur, opts) ==
    IF hs = <<>> THEN [waits |-> <<>>, cur |-> cur]
    ELSE LET hinted == Head(hs) # <<>>
             w == IF hinted THEN Max(Head(hs)[1], opts.MinBackoff)
                  ELSE Clamp(2 * cur, opts.MinBackoff, opts.MaxBackoff)
             rest == WaitsFrom(Tail(hs), IF hinted THEN cur ELSE w, opts)
         IN  [waits |-> <<w>> \o rest.waits, cur |-> rest.cur]

OwnStateOnly(call) ==
    LET e == WaitsFrom(call.hints, options.MinBackoff, options)
    IN  /\ call.attempts = 1 + Len(call.hints)
        /\ call.currentBackoff = e.cur
        /\ IF call.pc = "sleep"
           THEN /\ Append(call.sleeps, call.backoff) = e.waits
                /\ call.msgIds = RetryOf(call.registrationIds,
                                         call.resp[1].httpResp.Results)
           ELSE call.sleeps = e.waits

C20_CallsShareOnlyStore ==
    /\ [](OwnStateOnly(Locals) /\ OwnStateOnly(peer))
    /\ [][peer'.id = peer.id => peer' = peer]_vars
    /\ [][peer'.id # peer.id => (Locals' = peer /\ peer' = Locals)]_vars

\* Both calls have waited on their own hints, their steps interleaved, and
\* are now inside Store.Delete("b") at once, the first call between the two
\* Store calls of its second reconciliation.
C20_Witness ==
    /\ options = DefaultClientOptions
    /\ ~fatal
    /\ peer.id = 2
    /\ pc = "store"
    /\ calls = <<DeleteCall("a")>>
    /\ loop.call = <<DeleteCall("b")>>
    /\ WritePending(Locals)
    /\ WritePending(peer)
    /\ hints = << <<>> >>
    /\ sleeps = <<2 * Second>>
    /\ currentBackoff = 2 * Second
    /\ peer.pc = "store"
    /\ peer.loop.call = <<DeleteCall("b")>>
    /\ peer.hints = << <<5 * Second>> >>
    /\ peer.sleeps = <<5 * Second>>
    /\ peer.currentBackoff = 1 * Second

(***************************************************************************)
(* C21.  With 0 < MinBackoff <= MaxBackoff, currentBackoff lies in         *)
(* [MinBackoff, MaxBackoff] throughout a Send and no step lowers it: a     *)
(* retry decided without a hint sets it to the smaller of its double and   *)
(* MaxBackoff, and every other step, a retry decided on a hint included,   *)
(* leaves it as it is.  (Specification Spec.)                              *)
(***************************************************************************)
C21_CurrentBackoffMonotone ==
    /\ [](pc # "idle" =>
             (options.MinBackoff <= currentBackoff
                /\ currentBackoff <= options.MaxBackoff))
    /\ [][currentBackoff' >= currentBackoff]_vars
    /\ [][IF pc = "send" /\ pc' = "sleep" /\ resp'[1].retryAfter = <<>>
          THEN currentBackoff' = (IF 2 * currentBackoff < options.MaxBackoff
                                  THEN 2 * currentBackoff
                                  ELSE options.MaxBackoff)
          ELSE currentBackoff' = currentBackoff]_vars

\* 1s, 2s, 4s, 8s and then the ceiling of 10s, on four retries without hint.
C21_Witness ==
    /\ pc = "sleep"
    /\ options = DefaultClientOptions
    /\ hints = << <<>>, <<>>, <<>>, <<>> >>
    /\ sleeps = <<2 * Second, 4 * Second, 8 * Second>>
    /\ currentBackoff = defaultMaxBackoff

(***************************************************************************)
(* C22.  The retries-exhausted error is reported only while tokens still   *)
(* wait for a retry.  An attempt, whatever its number, that gets a 200     *)
(* whose reconciliation completes with an empty retry subset ends Send     *)
(* with success; and when Send has returned the exhausted error, its       *)
(* pending batch is not empty and its latest answer was not a 200.         *)
(* (Specification Spec.)                                                   *)
(***************************************************************************)
C22_ExhaustedOnlyWithPending ==
    /\ [][(pc = "send" /\ AcceptedAndSettled(resp', sent', storeFailed')) =>
            (pc' = "done" /\ ret'.err = NoError /\ ret'.err # ErrExhausted)]_vars
    /\ []((pc = "done" /\ ret.err = ErrExhausted) =>
            (msgIds # <<>> /\ resp # <<>> /\ resp[1].statusCode # StatusOK))

\* Success on the attempt after the last one the bound allows.
C22_Witness ==
    /\ pc = "done"
    /\ options.MaxRetryAttempts = 2
    /\ attempts = 3
    /\ exchanges = 3
    /\ AcceptedAndSettled(resp, sent, storeFailed)
    /\ ret.err = NoError

\* C23: in the example's MemStore, Delete of a token the map holds removes
\* it and returns no error, and Delete returns its "Could not find RegID"
\* error only for a token the map does not hold; so reconciliation of a
\* terminal-failure result for a registered token, with this Store, returns
\* no error.  Update of a token the map does not hold returns an error and
\* leaves the map as it was.
C23_MemStore ==
    mem.pc = "returned" =>
      /\ (mem.op = "Delete" /\ mem.oldRegId \in mem.regIds) =>
           (mem.err = NoError /\ mem.after = mem.regIds \ {mem.oldRegId})
      /\ (mem.op = "Delete" /\ mem.err # NoError) =>
           mem.oldRegId \notin mem.regIds
      /\ (mem.op = "processResp" /\ mem.oldRegId \in mem.regIds) =>
           mem.err = NoError
      /\ (mem.op = "Update" /\ mem.oldRegId \notin mem.regIds) =>
           (mem.err # NoError /\ mem.after = mem.regIds)

\* C24: processResp never reads registrationIds[i] at an index outside the
\* token sequence it was given: whatever the response, one whose result
\* list is longer than the token sequence included, the call returns (a
\* retry subset or an error) without an out-of-range access, and so does
\* Send.
C24_NoOutOfRange ==
    /\ proc.pc = "returned" => ~proc.out.panic
    /\ pc # "panic"

\* C25: with MinBackoff <= MaxBackoff, every wait Send hands to the sleep
\* hook is at least MinBackoff, whatever the responses and whatever the
\* hint (zero, below MinBackoff, negative), and every wait computed without
\* a hint is at most MaxBackoff.  (Specification SpecWait; hints[i] is the
\* hint of the response that led to the i-th wait.)
C25_WaitsWithinBounds ==
    options.MinBackoff <= options.MaxBackoff =>
      /\ Len(sleeps) <= Len(hints)
      /\ \A i \in DOMAIN sleeps :
           /\ sleeps[i] >= options.MinBackoff
           /\ hints[i] = <<>> => sleeps[i] <= options.MaxBackoff
      /\ pc = "sleep" =>
           /\ backoff >= options.MinBackoff
           /\ hints[Len(hints)] = <<>> => backoff <= options.MaxBackoff

\* Hints of zero, below MinBackoff and negative, each waited MinBackoff,
\* then a wait without a hint, cut at MaxBackoff.
C25_Witness ==
    /\ pc = "send"
    /\ options.MinBackoff = 2 * Second
    /\ options.MaxBackoff = 3 * Second
    /\ hints = << <<0>>, <<1 * Second>>, <<-5 * Second>>, <<>> >>
    /\ sleeps = <<2 * Second, 2 * Second, 2 * Second, 3 * Second>>

=============================================================================
